---- MODULE Spec2Model ----
(***************************************************************************)
(* A model of the tfidf-spider repository: the Spider (spider.py) that     *)
(* crawls a corpus folder and accumulates the raw term frequency table,    *)
(* and the Tfidf engine (tfidf.py) that derives the weight table, turns    *)
(* texts into vectors and answers nearest-document queries.                *)
(*                                                                         *)
(* Modelling conventions                                                   *)
(*  - A text is the sequence of tokens nltk's word_tokenize returns for    *)
(*    it; the value None (parse() after a failed read) is [ok |-> FALSE].  *)
(*  - A Python dict is a sequence of [k, v] records in insertion order.    *)
(*  - A Python exception is the value of err after the operation; an       *)
(*    operation that raises keeps the assignments it made before raising.  *)
(*  - A numpy vector is [num, den]: coordinate i is num[i]/(den*LnScale);  *)
(*    math.log is a fixed-point table (LnTable) scaled by LnScale.         *)
(***************************************************************************)
EXTENDS Integers, Sequences, FiniteSets, TLC

VARIABLES folder, spider, tfidf, op, err, arg, result

vars == <<folder, spider, tfidf, op, err, arg, result>>

(***************************************************************************)
(* Bounds of the model.                                                    *)
(***************************************************************************)
MaxLen == 2
MaxDocs == 2
MaxSeeds == 2

(***************************************************************************)
(* The input universe.                                                     *)
(***************************************************************************)
Tokens == {"a", "in", "cat", "cats", "dog"}

Texts == UNION {[1..n -> Tokens] : n \in 0..MaxLen}

Languages == {"german", "english", "french", "klingon"}

\* nltk ships a stop-word list for these languages only; stopwords.words
\* raises OSError for any other name.
StopwordLanguages == {"german", "english", "french"}

StopWords(language) ==
    CASE language = "german" -> {"in"}
      [] language = "english" -> {"in"}
      [] language = "french" -> {"le"}
      [] OTHER -> {}

\* The snowball stemmers on the tokens of the universe.
Stem(token) == IF token = "cats" THEN "cat" ELSE token

None == [ok |-> FALSE, text |-> <<>>]

Str(text) == [ok |-> TRUE, text |-> text]

Values == {Str(t) : t \in Texts} \cup {None}

Paths == <<"d1.txt", "d2.txt", "d3.txt", "d4.txt">>

OtherFile == [path |-> "x.html", ext |-> "html", data |-> Str(<<"dog">>)]

\* The listings os.walk can yield: up to MaxDocs .txt files, each readable
\* (with its text) or not, optionally preceded by a file of another type.
ListingsOver(values) ==
    UNION {{[i \in 1..n |-> [path |-> Paths[i], ext |-> "txt", data |-> f[i]]]
              : f \in [1..n -> values]} : n \in 0..MaxDocs}

Limits == {-1} \cup (0..MaxDocs)      \* -1 stands for limit=None

\* Seed terms: one token each, or a phrase of several words.
SeedTexts == {<<"a">>, <<"in">>, <<"cats">>, <<"cat", "dog">>}

SeedLists == UNION {[1..n -> SeedTexts] : n \in 0..MaxSeeds}

(***************************************************************************)
(* Python dict helpers.                                                    *)
(***************************************************************************)
Keys(d) == {d[i].k : i \in 1..Len(d)}

KeySeq(d) == [i \in 1..Len(d) |-> d[i].k]

Pos(d, key) ==
    IF key \in Keys(d) THEN CHOOSE i \in 1..Len(d) : d[i].k = key ELSE 0

Get(d, key) == d[Pos(d, key)].v

\* d[key] = value
Put(d, key, value) ==
    IF key \in Keys(d)
    THEN [d EXCEPT ![Pos(d, key)] = [k |-> key, v |-> value]]
    ELSE Append(d, [k |-> key, v |-> value])

RECURSIVE Update(_, _)
\* d.update(e)
Update(d, e) ==
    IF e = <<>> THEN d ELSE Update(Put(d, e[1].k, e[1].v), Tail(e))

RECURSIVE SumValues(_)
SumValues(d) == IF d = <<>> THEN 0 ELSE d[1].v + SumValues(Tail(d))

(***************************************************************************)
(* Spider                                                                  *)
(***************************************************************************)
NoSpider ==
    [live |-> FALSE, language |-> "", stopwords |-> {}, stemmer |-> "unset",
     content |-> <<>>, term_index |-> <<>>]

\* Spider.__init__: the object and the exception, if any.
Spider_init(language) ==
    IF language \notin StopwordLanguages
    THEN [err |-> "OSError", obj |-> NoSpider]
    ELSE [err |-> "none",
          obj |-> [live |-> TRUE,
                   language |-> language,
                   stopwords |-> StopWords(language),
                   stemmer |-> IF language = "german" THEN "GermanStemmer"
                               ELSE IF language = "english" THEN "EnglishStemmer"
                               ELSE "unset",
                   content |-> <<>>,
                   term_index |-> <<>>]]

\* Spider.parse: the text of the file, or None when reading it failed.
parse(file) == file.data

RECURSIVE CrawlFiles(_, _, _, _)
CrawlFiles(content, files, counter, limit) ==
    IF files = <<>> THEN content
    ELSE LET file == files[1] IN
         IF file.ext = "txt"
         THEN LET c == Put(content, file.path, parse(file)) IN
              IF limit # -1 /\ counter + 1 >= limit
              THEN c
              ELSE CrawlFiles(c, Tail(files), counter + 1, limit)
         ELSE CrawlFiles(content, Tail(files), counter, limit)

\* Spider.crawl
crawl(sp, files, limit) ==
    [sp EXCEPT !.content = CrawlFiles(sp.content, files, 0, limit)]

\* Spider.clear_index
clear_index(sp) == [sp EXCEPT !.term_index = <<>>]

RECURSIVE AddTokens(_, _, _)
\* The loop of Spider.add_new_token over the tokens.
AddTokens(sp, tokens, count_value) ==
    IF tokens = <<>> THEN [err |-> "none", obj |-> sp]
    ELSE LET token == tokens[1] IN
         IF Len(token) > 1 /\ token \notin sp.stopwords
         THEN IF sp.stemmer = "unset"
              THEN [err |-> "AttributeError", obj |-> sp]
              ELSE LET t == Stem(token)
                       ti == sp.term_index
                       n == IF t \notin Keys(ti) THEN 1
                            ELSE Get(ti, t) + count_value
                   IN AddTokens([sp EXCEPT !.term_index = Put(ti, t, n)],
                                Tail(tokens), count_value)
         ELSE AddTokens(sp, Tail(tokens), count_value)

\* Spider.add_new_token; word_tokenize raises TypeError on None.
add_new_token(sp, content, count_value) ==
    IF ~content.ok THEN [err |-> "TypeError", obj |-> sp]
    ELSE AddTokens(sp, content.text, count_value)

RECURSIVE AddAll(_, _, _)
\* add_new_token over a sequence of contents, stopping at the first raise.
AddAll(sp, contents, count_value) ==
    IF contents = <<>> THEN [err |-> "none", obj |-> sp]
    ELSE LET r == add_new_token(sp, contents[1], count_value) IN
         IF r.err # "none" THEN r
         ELSE AddAll(r.obj, Tail(contents), count_value)

NoSeeds == [given |-> FALSE, terms |-> <<>>]

\* generate_term_index folding the seeds with count_value=1.
generate_term_index_counting_seeds(sp, additional_terms) ==
    LET docs == [i \in 1..Len(sp.content) |-> sp.content[i].v]
        r == AddAll(clear_index(sp), docs, 1)
    IN IF r.err # "none" \/ ~additional_terms.given THEN r
       ELSE AddAll(r.obj,
                   [i \in 1..Len(additional_terms.terms) |->
                       Str(additional_terms.terms[i])], 1)

\* generate_term_index dropping the seeds.
generate_term_index_without_seeds(sp, additional_terms) ==
    LET docs == [i \in 1..Len(sp.content) |-> sp.content[i].v]
    IN AddAll(clear_index(sp), docs, 1)

\* Spider.generate_term_index
generate_term_index(sp, additional_terms) ==
    LET docs == [i \in 1..Len(sp.content) |-> sp.content[i].v]
        r == AddAll(clear_index(sp), docs, 1)
    IN IF r.err # "none" \/ ~additional_terms.given THEN r
       ELSE AddAll(r.obj,
                   [i \in 1..Len(additional_terms.terms) |->
                       Str(additional_terms.terms[i])], 0)

RECURSIVE InsertSorted(_, _)
\* Place e behind every entry whose value is at least e's (stable, descending).
InsertSorted(s, e) ==
    IF s = <<>> THEN <<e>>
    ELSE IF s[1].v >= e.v THEN <<s[1]>> \o InsertSorted(Tail(s), e)
    ELSE <<e>> \o s

RECURSIVE SortDesc(_, _)
SortDesc(done, rest) ==
    IF rest = <<>> THEN done
    ELSE SortDesc(InsertSorted(done, rest[1]), Tail(rest))

\* Spider.get_index_dictionary
get_index_dictionary(sp, sort) ==
    IF sort THEN SortDesc(<<>>, sp.term_index) ELSE sp.term_index

(***************************************************************************)
(* Tfidf                                                                   *)
(***************************************************************************)
LnScale == 100

\* round(LnScale * math.log(n)) for n = 1..48
LnTable ==
    <<0, 69, 110, 139, 161, 179, 195, 208, 220, 230, 240, 248, 256, 264, 271,
      277, 283, 289, 294, 300, 304, 309, 314, 318, 322, 326, 330, 333, 337,
      340, 343, 347, 350, 353, 356, 358, 361, 364, 366, 369, 371, 374, 376,
      378, 381, 383, 385, 387>>

\* math.log(total_count / count)
Log(total_count, count) == LnTable[total_count] - LnTable[count]

NoTfidf ==
    [live |-> FALSE, idf |-> <<>>, indexed_documents |-> <<>>,
     word_vector |-> <<>>]

RECURSIVE SetIdf(_, _, _, _)
\* for word in self.word_vector: self.idf[word] = math.log(total_count/term_index[word])
SetIdf(tf, words, term_index, total_count) ==
    IF words = <<>> THEN [err |-> "none", obj |-> tf]
    ELSE IF Get(term_index, words[1]) = 0
    THEN [err |-> "ZeroDivisionError", obj |-> tf]
    ELSE SetIdf([tf EXCEPT !.idf =
                    Put(tf.idf, words[1],
                        Log(total_count, Get(term_index, words[1])))],
                Tail(words), term_index, total_count)

\* init_term_frequency refusing an empty table.
init_term_frequency_guarded(tf, sp) ==
    LET term_index == get_index_dictionary(sp, TRUE)
        total_count == SumValues(term_index)
        words == KeySeq(term_index)
    IN IF total_count = 0 THEN [err |-> "EmptyVocabularyError", obj |-> tf]
       ELSE SetIdf([tf EXCEPT !.word_vector = words], words, term_index, total_count)

\* Tfidf.init_term_frequency
init_term_frequency(tf, sp) ==
    LET term_index == get_index_dictionary(sp, TRUE)
        total_count == SumValues(term_index)
        words == KeySeq(term_index)
    IN SetIdf([tf EXCEPT !.word_vector = words], words, term_index, total_count)

\* list.index
Index(seq, x) == CHOOSE i \in 1..Len(seq) : seq[i] = x /\ \A j \in 1..(i-1) : seq[j] # x

InList(seq, x) == \E i \in 1..Len(seq) : seq[i] = x

Zeros(n) == [i \in 1..n |-> 0]

RECURSIVE FillVector(_, _, _, _)
\* The loop of Tfidf.create_word_vector over the tokens of the text.
FillVector(num, entries, tf, assigned) ==
    IF entries = <<>> THEN [num |-> num, assigned |-> assigned]
    ELSE LET token == entries[1].k IN
         IF InList(tf.word_vector, token)
         THEN LET position == Index(tf.word_vector, token) IN
              FillVector([num EXCEPT ![position] = Get(tf.idf, token) * entries[1].v],
                         Tail(entries), tf, TRUE)
         ELSE FillVector(num, Tail(entries), tf, assigned)

NoVector == [num |-> <<>>, den |-> 1]

\* create_word_vector dividing by len_tokens before the loop.
create_word_vector_dividing_first(tf, sp, text) ==
    LET new_spider == Spider_init(sp.language) IN
    IF new_spider.err # "none" THEN [err |-> new_spider.err, vec |-> NoVector]
    ELSE LET r == add_new_token(new_spider.obj, text, 1) IN
         IF r.err # "none" THEN [err |-> r.err, vec |-> NoVector]
         ELSE LET term_index == get_index_dictionary(r.obj, FALSE)
                  len_tokens == SumValues(term_index)
                  f == FillVector(Zeros(Len(tf.word_vector)), term_index, tf, FALSE)
              IN IF len_tokens = 0
                 THEN [err |-> "ZeroDivisionError", vec |-> NoVector]
                 ELSE [err |-> "none",
                       vec |-> [num |-> f.num,
                                den |-> IF f.assigned THEN len_tokens ELSE 1]]

\* create_word_vector allocating one coordinate too many.
create_word_vector_off_by_one(tf, sp, text) ==
    LET new_spider == Spider_init(sp.language) IN
    IF new_spider.err # "none" THEN [err |-> new_spider.err, vec |-> NoVector]
    ELSE LET r == add_new_token(new_spider.obj, text, 1) IN
         IF r.err # "none" THEN [err |-> r.err, vec |-> NoVector]
         ELSE LET term_index == get_index_dictionary(r.obj, FALSE)
                  len_tokens == SumValues(term_index)
                  f == FillVector(Zeros(Len(tf.word_vector) + 1), term_index, tf, FALSE)
              IN [err |-> "none",
                  vec |-> [num |-> f.num,
                           den |-> IF f.assigned THEN len_tokens ELSE 1]]

\* Tfidf.create_word_vector: coordinate i of the result is num[i]/(den*LnScale).
create_word_vector(tf, sp, text) ==
    LET new_spider == Spider_init(sp.language) IN
    IF new_spider.err # "none" THEN [err |-> new_spider.err, vec |-> NoVector]
    ELSE LET r == add_new_token(new_spider.obj, text, 1) IN
         IF r.err # "none" THEN [err |-> r.err, vec |-> NoVector]
         ELSE LET term_index == get_index_dictionary(r.obj, FALSE)
                  len_tokens == SumValues(term_index)
                  f == FillVector(Zeros(Len(tf.word_vector)), term_index, tf, FALSE)
              IN [err |-> "none",
                  vec |-> [num |-> f.num,
                           den |-> IF f.assigned THEN len_tokens ELSE 1]]

RECURSIVE InsertAll(_, _, _)
InsertAll(tf, sp, content) ==
    IF content = <<>> THEN [err |-> "none", obj |-> tf]
    ELSE LET r == create_word_vector(tf, sp, content[1].v) IN
         IF r.err # "none" THEN [err |-> r.err, obj |-> tf]
         ELSE InsertAll([tf EXCEPT !.indexed_documents =
                            Put(tf.indexed_documents, content[1].k, r.vec)],
                        sp, Tail(content))

\* Tfidf.insert_documents
insert_documents(tf, sp, content) == InsertAll(tf, sp, content)

NoDocuments == [given |-> FALSE, docs |-> <<>>]

\* SelectContent where the corpus entry wins an id collision under 'add'.
SelectContent_corpus_wins(sp, index_documents, new_documents) ==
    CASE index_documents = "same" -> [err |-> "none", content |-> sp.content]
      [] index_documents = "new" ->
            IF new_documents.given
            THEN [err |-> "none", content |-> new_documents.docs]
            ELSE [err |-> "AttributeError", content |-> <<>>]
      [] index_documents = "add" ->
            IF new_documents.given
            THEN [err |-> "none", content |-> Update(new_documents.docs, sp.content)]
            ELSE [err |-> "TypeError", content |-> <<>>]
      [] OTHER -> [err |-> "Exception", content |-> <<>>]

\* The mapping Tfidf.__init__ selects, or the exception it raises on the way.
SelectContent(sp, index_documents, new_documents) ==
    CASE index_documents = "same" -> [err |-> "none", content |-> sp.content]
      [] index_documents = "new" ->
            IF new_documents.given
            THEN [err |-> "none", content |-> new_documents.docs]
            ELSE [err |-> "AttributeError", content |-> <<>>]
      [] index_documents = "add" ->
            IF new_documents.given
            THEN [err |-> "none", content |-> Update(sp.content, new_documents.docs)]
            ELSE [err |-> "TypeError", content |-> <<>>]
      [] OTHER -> [err |-> "Exception", content |-> <<>>]

\* Tfidf.__init__: the object and the exception, if any.
Tfidf_init(sp, index_documents, new_documents) ==
    LET t0 == [live |-> TRUE, idf |-> <<>>, indexed_documents |-> <<>>,
               word_vector |-> <<>>]
        t1 == init_term_frequency(t0, sp)
        c == SelectContent(sp, index_documents, new_documents)
    IN IF t1.err # "none" THEN [err |-> t1.err, obj |-> NoTfidf]
       ELSE IF c.err # "none" THEN [err |-> c.err, obj |-> NoTfidf]
       ELSE LET r == insert_documents(t1.obj, sp, c.content) IN
            IF r.err # "none" THEN [err |-> r.err, obj |-> NoTfidf] ELSE r

(***************************************************************************)
(* Distances.  For a stored vector v = [num a, den n] and a query vector   *)
(* [num b, den m], np.linalg.norm(v - query)^2 * (LnScale*m)^2 is the      *)
(* rational p/q below.                                                     *)
(***************************************************************************)
Sq(x) == x * x

RECURSIVE SumSq(_, _, _, _, _)
SumSq(a, n, b, m, i) ==
    IF i = 0 THEN 0
    ELSE LET ai == IF Len(a) = 1 THEN a[1] ELSE a[i]
             bi == IF Len(b) = 1 THEN b[1] ELSE b[i]
         IN Sq(ai * m - bi * n) + SumSq(a, n, b, m, i - 1)

\* numpy subtracts vectors of equal length, or broadcasts one of length 1.
Broadcastable(v, query) ==
    Len(v.num) = Len(query.num) \/ Len(v.num) = 1 \/ Len(query.num) = 1

BroadcastLen(v, query) ==
    IF Len(v.num) = 1 THEN Len(query.num) ELSE Len(v.num)

Distance2(v, query) ==
    [p |-> SumSq(v.num, v.den, query.num, query.den, BroadcastLen(v, query)),
     q |-> Sq(v.den)]

BestMatchDistance == 100

NoDocumentFound == "no document found"

\* best_match_distance = 1
InitialBest_one(query) ==
    [p |-> Sq(LnScale) * Sq(query.den), q |-> 1]

\* best_match_distance = 100
InitialBest(query) ==
    [p |-> Sq(BestMatchDistance) * Sq(LnScale) * Sq(query.den), q |-> 1]

\* x < y
Less(x, y) ==
    IF y.q = 1 THEN (x.p \div x.q) < y.p ELSE x.p * y.q < y.p * x.q

RECURSIVE Scan(_, _, _, _)
\* The loop of Tfidf.search over indexed_documents.
Scan(docs, query, best_match_document, best_match_distance) ==
    IF docs = <<>> THEN [err |-> "none", doc |-> best_match_document]
    ELSE IF ~Broadcastable(docs[1].v, query)
    THEN [err |-> "ValueError", doc |-> ""]
    ELSE LET distance == Distance2(docs[1].v, query) IN
         IF Less(distance, best_match_distance)
         THEN Scan(Tail(docs), query, docs[1].k, distance)
         ELSE Scan(Tail(docs), query, best_match_document, best_match_distance)

\* Tfidf.search
search(tf, sp, search_text) ==
    LET sv == create_word_vector(tf, sp, search_text) IN
    IF sv.err # "none" THEN [err |-> sv.err, doc |-> "", vec |-> NoVector]
    ELSE LET r == Scan(tf.indexed_documents, sv.vec, NoDocumentFound,
                       InitialBest(sv.vec))
         IN [err |-> r.err, doc |-> r.doc, vec |-> sv.vec]

(***************************************************************************)
(* The program: a caller holding one Spider and one Tfidf, and the corpus  *)
(* folder the Spider crawls.                                               *)
(***************************************************************************)
Policies == {"same", "new", "add", "overwrite"}

DocIds == {"d1.txt", "n1"}

\* Caller-given document mappings.
MappingsOver(texts) ==
    {<<>>} \cup {<<[k |-> id, v |-> Str(t)]>> : id \in DocIds, t \in texts}

NewDocumentsOver(texts) ==
    {NoDocuments} \cup {[given |-> TRUE, docs |-> m] : m \in MappingsOver(texts)}

AdditionalTermsOver(lists) ==
    {NoSeeds} \cup {[given |-> TRUE, terms |-> s] : s \in lists}

NoArg ==
    [language |-> "", terms |-> NoSeeds, policy |-> "", docs |-> NoDocuments,
     text |-> None]

NoResult == [doc |-> "", vec |-> NoVector]

InitOver(listings) ==
    /\ folder \in listings
    /\ spider = NoSpider
    /\ tfidf = NoTfidf
    /\ op = "start"
    /\ err = "none"
    /\ arg = NoArg
    /\ result = NoResult

\* spider = Spider(language=language)
NewSpider(language) ==
    /\ ~spider.live
    /\ LET r == Spider_init(language) IN
       /\ spider' = r.obj
       /\ err' = r.err
    /\ op' = "Spider"
    /\ arg' = [NoArg EXCEPT !.language = language]
    /\ UNCHANGED <<folder, tfidf, result>>

\* spider.crawl(limit)
Crawl(limit) ==
    /\ spider.live
    /\ spider' = crawl(spider, folder, limit)
    /\ op' = "crawl"
    /\ err' = "none"
    /\ arg' = NoArg
    /\ UNCHANGED <<folder, tfidf, result>>

\* spider.generate_term_index(additional_terms)
GenerateTermIndex(additional_terms) ==
    /\ spider.live
    /\ LET r == generate_term_index(spider, additional_terms) IN
       /\ spider' = r.obj
       /\ err' = r.err
    /\ op' = "generate_term_index"
    /\ arg' = [NoArg EXCEPT !.terms = additional_terms]
    /\ UNCHANGED <<folder, tfidf, result>>

\* tfidf = Tfidf(spider, index_documents, new_documents)
NewTfidf(index_documents, new_documents) ==
    /\ spider.live
    /\ ~tfidf.live
    /\ LET r == Tfidf_init(spider, index_documents, new_documents) IN
       /\ tfidf' = r.obj
       /\ err' = r.err
    /\ op' = "Tfidf"
    /\ arg' = [NoArg EXCEPT !.policy = index_documents, !.docs = new_documents]
    /\ UNCHANGED <<folder, spider, result>>

\* tfidf.init_term_frequency()
InitTermFrequency ==
    /\ tfidf.live
    /\ LET r == init_term_frequency(tfidf, spider) IN
       /\ tfidf' = r.obj
       /\ err' = r.err
    /\ op' = "init_term_frequency"
    /\ arg' = NoArg
    /\ UNCHANGED <<folder, spider, result>>

\* tfidf.insert_documents(content)
InsertDocuments(content) ==
    /\ tfidf.live
    /\ LET r == insert_documents(tfidf, spider, content) IN
       /\ tfidf' = r.obj
       /\ err' = r.err
    /\ op' = "insert_documents"
    /\ arg' = [NoArg EXCEPT !.docs = [given |-> TRUE, docs |-> content]]
    /\ UNCHANGED <<folder, spider, result>>

\* tfidf.search(search_text)
Search(search_text) ==
    /\ tfidf.live
    /\ LET r == search(tfidf, spider, search_text) IN
       /\ result' = [doc |-> r.doc, vec |-> r.vec]
       /\ err' = r.err
    /\ op' = "search"
    /\ arg' = [NoArg EXCEPT !.text = search_text]
    /\ UNCHANGED <<folder, spider, tfidf>>

(***************************************************************************)
(* Spec: the program in the order main.py runs it (Spider, crawl,          *)
(* generate_term_index, Tfidf, then insert_documents and search), on a     *)
(* small corpus and with every query of up to MaxLen tokens.               *)
(***************************************************************************)
CorpusTexts == {<<>>, <<"cat">>, <<"dog", "cats">>}

CorpusListings == ListingsOver({Str(t) : t \in CorpusTexts} \cup {None})

CorpusSeeds == {<<>>, << <<"dog">> >>}

CallerTexts == {<<"cat">>, <<"dog">>}

CorpusLanguages == {"german", "french"}

Init == InitOver(CorpusListings)

Next ==
    \/ \E language \in CorpusLanguages : NewSpider(language)
    \/ ~tfidf.live /\ Crawl(-1)
    \/ \E additional_terms \in AdditionalTermsOver(CorpusSeeds) :
          ~tfidf.live /\ GenerateTermIndex(additional_terms)
    \/ \E index_documents \in Policies, new_documents \in NewDocumentsOver(CallerTexts) :
          NewTfidf(index_documents, new_documents)
    \/ \E content \in MappingsOver(CallerTexts) : InsertDocuments(content)
    \/ \E text \in Texts : Search(Str(text))

Spec == Init /\ [][Next]_vars

(***************************************************************************)
(* SpecIndex: the Spider alone, on every corpus folder of up to MaxDocs    *)
(* files of up to MaxLen tokens and every list of up to MaxSeeds seeds.    *)
(***************************************************************************)
IndexLanguages == {"english", "klingon"}

InitIndex ==
    InitOver(ListingsOver(Values)
             \cup {<<OtherFile>> \o l : l \in ListingsOver({Str(<<"dog">>)})})

NextIndex ==
    \/ \E language \in IndexLanguages : NewSpider(language)
    \/ \E limit \in Limits : Crawl(limit)
    \/ \E additional_terms \in AdditionalTermsOver(SeedLists) :
          GenerateTermIndex(additional_terms)

SpecIndex == InitIndex /\ [][NextIndex]_vars

(***************************************************************************)
(* SpecRebuild: a caller that also rebuilds the index and the weights      *)
(* after the Tfidf was constructed, on the small corpus.                   *)
(***************************************************************************)
RebuildQueries == {<<>>, <<"cats">>, <<"dog", "cat">>}

NextRebuild ==
    \/ NewSpider("german")
    \/ Crawl(-1)
    \/ \E additional_terms \in AdditionalTermsOver(CorpusSeeds) :
          GenerateTermIndex(additional_terms)
    \/ \E index_documents \in {"same", "add"} :
          NewTfidf(index_documents, [given |-> TRUE, docs |-> <<>>])
    \/ InitTermFrequency
    \/ InsertDocuments(<<[k |-> "n1", v |-> Str(<<"dog">>)]>>)
    \/ \E text \in RebuildQueries : Search(Str(text))

SpecRebuild == Init /\ [][NextRebuild]_vars

(***************************************************************************)
(* Notions the properties are stated in.                                   *)
(***************************************************************************)
Terms == {Stem(t) : t \in Tokens}

\* The token passes the filter of add_new_token.
Surviving(sp, token) == Len(token) > 1 /\ token \notin sp.stopwords

\* The occurrences of tokens in the text that survive and normalize to term.
LocalCount(sp, text, term) ==
    Cardinality({i \in 1..Len(text) : Surviving(sp, text[i]) /\ Stem(text[i]) = term})

LocalTotal(sp, text) ==
    Cardinality({i \in 1..Len(text) : Surviving(sp, text[i])})

\* The surviving occurrences of term across all corpus documents.
Occurrences(sp, term) ==
    Cardinality({p \in UNION {{<<d, i>> : i \in 1..Len(sp.content[d].v.text)}
                                : d \in 1..Len(sp.content)} :
                    /\ Surviving(sp, sp.content[p[1]].v.text[p[2]])
                    /\ Stem(sp.content[p[1]].v.text[p[2]]) = term})

SeedTokens(additional_terms) ==
    UNION {{additional_terms.terms[i][j] : j \in 1..Len(additional_terms.terms[i])}
             : i \in 1..Len(additional_terms.terms)}

SeedTerms(sp, additional_terms) ==
    {Stem(t) : t \in {u \in SeedTokens(additional_terms) : Surviving(sp, u)}}

Range(seq) == {seq[i] : i \in 1..Len(seq)}

Store == tfidf.indexed_documents

\* np.linalg.norm(Store[i] - query) < np.linalg.norm(Store[j] - query)
Closer(i, j, query) ==
    Less(Distance2(Store[i].v, query), Distance2(Store[j].v, query))

RECURSIVE SumSquares(_)
SumSquares(num) == IF num = <<>> THEN 0 ELSE Sq(num[1]) + SumSquares(Tail(num))

\* |v| < |w|
SmallerNorm(v, w) == SumSquares(v.num) * Sq(w.den) < SumSquares(w.num) * Sq(v.den)

IsZeroVector(v) == v.num = Zeros(Len(tfidf.word_vector))

\* No token of the text survives the filter.
ZeroSurviving(sp, text) == \A i \in 1..Len(text) : ~Surviving(sp, text[i])

\* Every token of the text is filtered or normalizes to no vocabulary term.
OnlyStopOrUnknown(sp, text) ==
    \A i \in 1..Len(text) :
        ~Surviving(sp, text[i]) \/ Stem(text[i]) \notin Range(tfidf.word_vector)

C3_ParseFailureSkipped ==
    /\ op = "crawl" => \A d \in 1..Len(spider.content) : spider.content[d].v.ok
    /\ (op = "generate_term_index" \/ (op = "Tfidf" /\ arg.policy = "same"))
          => err # "TypeError"

(***************************************************************************)
(* C4 as stated: vectorizing a text with zero surviving tokens fails with  *)
(* an EmptyTextError.                                                      *)
(***************************************************************************)
C4_EmptyTextFails ==
    (op = "search" /\ ZeroSurviving(spider, arg.text.text)) =>
        err = "EmptyTextError"

(***************************************************************************)
(* C4 amended: vectorizing a text with zero surviving tokens does not      *)
(* fail; it produces the all-zero vector of length |Vocabulary|.           *)
(***************************************************************************)
C4_EmptyTextZeroVector ==
    (op = "search" /\ ZeroSurviving(spider, arg.text.text)) =>
        /\ err = "none"
        /\ IsZeroVector(result.vec)

\* A query of filtered tokens only, against a two-term vocabulary.
C4_Witness ==
    /\ op = "search" /\ err = "none"
    /\ arg.text.text = <<"in", "a">>
    /\ Len(tfidf.word_vector) = 2
    /\ result.vec.num = <<0, 0>>

(***************************************************************************)
(* C5: a query of stop-words only, or of out-of-vocabulary terms only,     *)
(* vectorizes to the all-zero vector, and search with it on a non-empty    *)
(* store does not raise and returns a stored document of smallest norm.    *)
(***************************************************************************)
C5_UnknownQueryStillMatches ==
    (op = "search" /\ Store # <<>> /\ OnlyStopOrUnknown(spider, arg.text.text)) =>
        /\ err = "none"
        /\ IsZeroVector(result.vec)
        /\ \E i \in 1..Len(Store) :
              /\ Store[i].k = result.doc
              /\ \A j \in 1..Len(Store) : ~SmallerNorm(Store[j].v, Store[i].v)

C7_UnknownLanguageRejected ==
    /\ spider.live => spider.language \in {"german", "english"}
    /\ spider.live => spider.stemmer # "unset"

(***************************************************************************)
(* C9: a constructed Tfidf stores exactly the vectors of the mapping its   *)
(* policy selects: 'same' the corpus, 'new' the caller's mapping, 'add'    *)
(* both with the caller's text on an id collision; any other policy raises *)
(* and produces no Tfidf.                                                  *)
(***************************************************************************)
PolicyKeys ==
    CASE arg.policy = "same" -> Keys(spider.content)
      [] arg.policy = "new" -> Keys(arg.docs.docs)
      [] arg.policy = "add" -> Keys(spider.content) \cup Keys(arg.docs.docs)
      [] OTHER -> {}

PolicyText(id) ==
    IF arg.policy # "same" /\ id \in Keys(arg.docs.docs)
    THEN Get(arg.docs.docs, id)
    ELSE Get(spider.content, id)

C9_PolicySelectsStore ==
    op = "Tfidf" =>
        /\ arg.policy \notin {"same", "new", "add"} =>
              err = "Exception" /\ ~tfidf.live
        /\ err = "none" =>
              /\ tfidf.live
              /\ Keys(Store) = PolicyKeys
              /\ \A i \in 1..Len(Store) :
                    Store[i].v =
                        create_word_vector(tfidf, spider, PolicyText(Store[i].k)).vec

\* 'add' with a caller document under the id of a corpus document whose text
\* vectorizes differently.
C9_Witness ==
    /\ op = "Tfidf" /\ err = "none"
    /\ arg.policy = "add"
    /\ "d1.txt" \in Keys(arg.docs.docs)
    /\ "d1.txt" \in Keys(spider.content)
    /\ Len(Store) = 2
    /\ create_word_vector(tfidf, spider, Get(spider.content, "d1.txt")).vec
          # Get(Store, "d1.txt")

(***************************************************************************)
(* C10 as stated: in every reachable state every stored vector and every   *)
(* query vector has length len(word_vector), its coordinate i belongs to   *)
(* the term word_vector[i], and the keys of idf are the terms of           *)
(* word_vector.                                                            *)
(***************************************************************************)
\* Coordinate i is the weight of word_vector[i] times a term count.
CoordinatesOf(v) ==
    /\ Len(v.num) = Len(tfidf.word_vector)
    /\ \A i \in 1..Len(v.num) :
          /\ tfidf.word_vector[i] \in Keys(tfidf.idf)
          /\ \E c \in 0..MaxLen :
                v.num[i] = Get(tfidf.idf, tfidf.word_vector[i]) * c

\* Coordinate i is the weight of word_vector[i] times its count in the query.
QueryCoordinates(v, text) ==
    /\ Len(v.num) = Len(tfidf.word_vector)
    /\ \A i \in 1..Len(v.num) :
          /\ tfidf.word_vector[i] \in Keys(tfidf.idf)
          /\ v.num[i] = Get(tfidf.idf, tfidf.word_vector[i])
                           * LocalCount(spider, text, tfidf.word_vector[i])
    /\ (\E i \in 1..Len(v.num) : LocalCount(spider, text, tfidf.word_vector[i]) > 0)
          => v.den = LocalTotal(spider, text)

DimensionsAgree ==
    tfidf.live =>
        /\ Keys(tfidf.idf) = Range(tfidf.word_vector)
        /\ \A d \in 1..Len(Store) : CoordinatesOf(Store[d].v)
        /\ (op = "search" /\ err \in {"none", "ValueError"})
              => QueryCoordinates(result.vec, arg.text.text)

C10_DimensionsAlwaysAgree == DimensionsAgree

(***************************************************************************)
(* C10 amended: the Tfidf constructor establishes the agreement of all     *)
(* stored and query vectors and of idf with word_vector, and every call    *)
(* other than a further init_term_frequency preserves it.                  *)
(***************************************************************************)
C10_DimensionsAgreeUntilReinit ==
    [][/\ (op' = "Tfidf" /\ tfidf'.live) => DimensionsAgree'
       /\ (tfidf.live /\ DimensionsAgree /\ op' # "init_term_frequency")
             => DimensionsAgree']_vars

\* The Spider's index was rebuilt to another vocabulary after the vectors were
\* produced, and the vectors still agree with word_vector.
C10_Witness ==
    /\ tfidf.live /\ DimensionsAgree
    /\ op = "search" /\ err = "none"
    /\ Len(Store) = 2
    /\ Len(tfidf.word_vector) = 2
    /\ Len(spider.term_index) = 1
    /\ result.vec.num # <<0, 0>>

====
